---- MODULE Spec2Model ----
(***************************************************************************)
(* The presentation loop of queue-stopping/src/main.rs: the winit event    *)
(* loop closure (CloseRequested / Resized / RedrawRequested / AboutToWait) *)
(* and render_texture, together with the frame producer that feeds         *)
(* video_receiver and the windowing system that delivers the events.       *)
(***************************************************************************)
EXTENDS Integers, Sequences, FiniteSets, TLC

\* ------------------------------------------------------------------ bounds
\* Number of data frames the producer may emit.
MaxFrames == 2
\* Number of distinct sizes a Resized event may carry.
MaxSizes == 2

\* ------------------------------------------------------- program constants
OUTPUT_RESOLUTION == [width |-> 1280, height |-> 720]

\* draw(0..3, 0..1): the full-screen triangle.
DrawVertices == 3
DrawInstances == 1

\* Sizes a Resized(new_size) event may carry.
NewSizes == {[width |-> 640 * k, height |-> 480 * k] : k \in 1..MaxSizes}

\* FrameData variants: the one render_texture accepts, and one it rejects.
FrameDataVariants == {"Rgba8UnormWgpuTexture", "PlanarYuv420"}

VARIABLES
    close_requested,   \* let mut close_requested
    loop_state,        \* "running" | "exited" (elwt.exit()) | "panicked"
    config,            \* let mut config: wgpu::SurfaceConfiguration
    surface_config,    \* the configuration last given to surface.configure
    window_size,       \* size carried by the latest Resized event (initially inner_size)
    chan,              \* messages pending between producer and video_receiver
    chan_closed,       \* the producer has dropped its end of the channel
    next_frame,        \* id of the next frame the producer will emit
    redraw_requested,  \* a redraw delivery is owed (window.request_redraw / first expose)
    ops,               \* GPU calls made by the handler that ran last
    presented,         \* ids of the frames presented so far, in order
    screen,            \* what the surface shows: 0 nothing yet, -1 black, else a frame id
    error_log,         \* number of "Unexpected frame data format" errors logged
    last_event,        \* the event the closure handled last
    last_recv,         \* what the latest video_receiver.try_recv() returned
    observed           \* ids of the Data frames try_recv handed to the loop, in order

vars == <<close_requested, loop_state, config, surface_config, window_size, chan,
          chan_closed, next_frame, redraw_requested, ops, presented, screen,
          error_log, last_event, last_recv, observed>>

\* ----------------------------------------------------------------- helpers
Op(name, arg) == [op |-> name, arg |-> arg]

RECURSIVE CountOp(_, _)
CountOp(s, name) ==
    IF s = <<>> THEN 0
    ELSE (IF Head(s).op = name THEN 1 ELSE 0) + CountOp(Tail(s), name)

Last(s) == s[Len(s)]

DataMsg(id, data) == [tag |-> "Data", id |-> id, data |-> data]
EOSMsg == [tag |-> "EOS", id |-> 0, data |-> "none"]

\* The control state of the loop, in the three states of the design.
ControlState ==
    IF loop_state = "exited" THEN "Exited"
    ELSE IF close_requested THEN "ClosePending"
    ELSE "Running"

\* ------------------------------------------------------------ frame channel
\* Mutant of Send: the newest value is put in front of the unconsumed ones.
Send_Stack(c, msg) == <<msg>> \o c

\* Mutant of Send: a queue that keeps the unconsumed values.
Send_Queue(c, msg) == Append(c, msg)

\* One-slot, overwrite-on-overflow delivery: a new value replaces an
\* unconsumed one.
Send(c, msg) == <<msg>>

\* video_receiver.try_recv(): never blocks; nothing when no value is pending
\* or when the producer has closed its end.
TryRecv(c, closed) ==
    IF closed THEN [ok |-> FALSE, err |-> "Disconnected", msg |-> EOSMsg]
    ELSE IF c = <<>> THEN [ok |-> FALSE, err |-> "Empty", msg |-> EOSMsg]
    ELSE [ok |-> TRUE, err |-> "none", msg |-> Head(c)]

\* ----------------------------------------------------------------- producer
ProducerSend(data) ==
    /\ ~chan_closed
    /\ next_frame <= MaxFrames
    /\ chan' = Send(chan, DataMsg(next_frame, data))
    /\ next_frame' = next_frame + 1
    /\ UNCHANGED <<close_requested, loop_state, config, surface_config, window_size,
                   chan_closed, redraw_requested, ops, presented, screen, error_log,
                   last_event, last_recv, observed>>

ProducerSendEOS ==
    /\ ~chan_closed
    /\ chan' = Send(chan, EOSMsg)
    /\ chan' # chan
    /\ UNCHANGED <<close_requested, loop_state, config, surface_config, window_size,
                   chan_closed, next_frame, redraw_requested, ops, presented, screen,
                   error_log, last_event, last_recv, observed>>

ProducerClose ==
    /\ ~chan_closed
    /\ chan_closed' = TRUE
    /\ UNCHANGED <<close_requested, loop_state, config, surface_config, window_size,
                   chan, next_frame, redraw_requested, ops, presented, screen,
                   error_log, last_event, last_recv, observed>>

\* ----------------------------------------------------------- render_texture
\* Mutant of render_texture: the draw call is issued twice in the pass.
render_texture_DrawTwice(frame, cfg, acquire_ok) ==
    IF frame.data # "Rgba8UnormWgpuTexture"
    THEN [ops |-> <<>>, presented |-> <<>>, logged |-> 1, panicked |-> FALSE]
    ELSE IF ~acquire_ok
    THEN [ops |-> << Op("create_bind_group", <<frame.id>>),
                     Op("get_current_texture_err", <<>>),
                     Op("drop_bind_group", <<frame.id>>) >>,
          presented |-> <<>>, logged |-> 0, panicked |-> TRUE]
    ELSE [ops |-> << Op("create_bind_group", <<frame.id>>),
                     Op("get_current_texture", <<cfg.width, cfg.height>>),
                     Op("create_command_encoder", <<>>),
                     Op("begin_render_pass", <<>>),
                     Op("draw", <<DrawVertices, DrawInstances>>),
                     Op("draw", <<DrawVertices, DrawInstances>>),
                     Op("finish", <<>>),
                     Op("submit", <<>>),
                     Op("present", <<frame.id>>),
                     Op("drop_bind_group", <<frame.id>>) >>,
          presented |-> <<frame.id>>, logged |-> 0, panicked |-> FALSE]

\* Mutant of render_texture: the image is presented before the commands
\* that draw into it are submitted.
render_texture_PresentBeforeSubmit(frame, cfg, acquire_ok) ==
    IF frame.data # "Rgba8UnormWgpuTexture"
    THEN [ops |-> <<>>, presented |-> <<>>, logged |-> 1, panicked |-> FALSE]
    ELSE IF ~acquire_ok
    THEN [ops |-> << Op("create_bind_group", <<frame.id>>),
                     Op("get_current_texture_err", <<>>),
                     Op("drop_bind_group", <<frame.id>>) >>,
          presented |-> <<>>, logged |-> 0, panicked |-> TRUE]
    ELSE [ops |-> << Op("create_bind_group", <<frame.id>>),
                     Op("get_current_texture", <<cfg.width, cfg.height>>),
                     Op("create_command_encoder", <<>>),
                     Op("begin_render_pass", <<>>),
                     Op("draw", <<DrawVertices, DrawInstances>>),
                     Op("present", <<frame.id>>),
                     Op("finish", <<>>),
                     Op("submit", <<>>),
                     Op("drop_bind_group", <<frame.id>>) >>,
          presented |-> <<frame.id>>, logged |-> 0, panicked |-> FALSE]

\* Mutant of render_texture: the per-frame bind group is kept after the draw.
render_texture_KeepsBindGroup(frame, cfg, acquire_ok) ==
    IF frame.data # "Rgba8UnormWgpuTexture"
    THEN [ops |-> <<>>, presented |-> <<>>, logged |-> 1, panicked |-> FALSE]
    ELSE IF ~acquire_ok
    THEN [ops |-> << Op("create_bind_group", <<frame.id>>),
                     Op("get_current_texture_err", <<>>),
                     Op("drop_bind_group", <<frame.id>>) >>,
          presented |-> <<>>, logged |-> 0, panicked |-> TRUE]
    ELSE [ops |-> << Op("create_bind_group", <<frame.id>>),
                     Op("get_current_texture", <<cfg.width, cfg.height>>),
                     Op("create_command_encoder", <<>>),
                     Op("begin_render_pass", <<>>),
                     Op("draw", <<DrawVertices, DrawInstances>>),
                     Op("finish", <<>>),
                     Op("submit", <<>>),
                     Op("present", <<frame.id>>) >>,
          presented |-> <<frame.id>>, logged |-> 0, panicked |-> FALSE]

\* The effect of render_texture(&frame, ...) on a surface configured as cfg,
\* when get_current_texture answers acquire_ok. The calls are logged in
\* program order; finish() consumes the command encoder, present() consumes
\* the surface image, and the bind group is dropped where its scope ends
\* (at the return, or when the expect unwinds).
render_texture(frame, cfg, acquire_ok) ==
    IF frame.data # "Rgba8UnormWgpuTexture"
    THEN [ops |-> <<>>, presented |-> <<>>, logged |-> 1, panicked |-> FALSE]
    ELSE IF ~acquire_ok
    THEN [ops |-> << Op("create_bind_group", <<frame.id>>),
                     Op("get_current_texture_err", <<>>),
                     Op("drop_bind_group", <<frame.id>>) >>,
          presented |-> <<>>, logged |-> 0, panicked |-> TRUE]
    ELSE [ops |-> << Op("create_bind_group", <<frame.id>>),
                     Op("get_current_texture", <<cfg.width, cfg.height>>),
                     Op("create_command_encoder", <<>>),
                     Op("begin_render_pass", <<>>),
                     Op("draw", <<DrawVertices, DrawInstances>>),
                     Op("finish", <<>>),
                     Op("submit", <<>>),
                     Op("present", <<frame.id>>),
                     Op("drop_bind_group", <<frame.id>>) >>,
          presented |-> <<frame.id>>, logged |-> 0, panicked |-> FALSE]

\* ------------------------------------------------------------ event handlers
\* Event::WindowEvent { event: WindowEvent::CloseRequested, .. }
CloseRequested ==
    /\ loop_state = "running"
    /\ close_requested' = TRUE
    /\ ops' = <<>>
    /\ last_event' = "CloseRequested"
    /\ UNCHANGED <<loop_state, config, surface_config, window_size, chan, chan_closed,
                   next_frame, redraw_requested, presented, screen, error_log, last_recv, observed>>

\* Mutant of Resized: config is updated but surface.configure is not called.
Resized_NoConfigure(new_size) ==
    /\ loop_state = "running"
    /\ window_size' = new_size
    /\ config' = [config EXCEPT !.width = new_size.width, !.height = new_size.height]
    /\ ops' = <<>>
    /\ last_event' = "Resized"
    /\ UNCHANGED <<close_requested, loop_state, surface_config, chan, chan_closed,
                   next_frame, redraw_requested, presented, screen, error_log, last_recv, observed>>

\* Mutant of Resized: the configuration is rebuilt with another presentation
\* mode.
Resized_ChangesPresentMode(new_size) ==
    /\ loop_state = "running"
    /\ window_size' = new_size
    /\ config' = [config EXCEPT !.width = new_size.width, !.height = new_size.height,
                                !.present_mode = "AutoVsync"]
    /\ surface_config' = config'
    /\ ops' = <<>>
    /\ last_event' = "Resized"
    /\ UNCHANGED <<close_requested, loop_state, chan, chan_closed, next_frame,
                   redraw_requested, presented, screen, error_log, last_recv, observed>>

\* Event::WindowEvent { event: WindowEvent::Resized(new_size), .. }
Resized(new_size) ==
    /\ loop_state = "running"
    /\ window_size' = new_size
    /\ config' = [config EXCEPT !.width = new_size.width, !.height = new_size.height]
    /\ surface_config' = config'
    /\ ops' = <<>>
    /\ last_event' = "Resized"
    /\ UNCHANGED <<close_requested, loop_state, chan, chan_closed, next_frame,
                   redraw_requested, presented, screen, error_log, last_recv, observed>>

\* Mutant of RedrawRequestedHandler: with no frame to draw, the surface is
\* cleared and presented.
RedrawRequestedHandler_ClearWhenIdle(acquire_ok) ==
    LET r == TryRecv(chan, chan_closed)
        isData == r.ok /\ r.msg.tag = "Data"
        out == render_texture(r.msg, surface_config, acquire_ok)
    IN  /\ chan' = IF r.ok THEN Tail(chan) ELSE chan
        /\ IF isData
           THEN /\ ops' = out.ops
                /\ presented' = presented \o out.presented
                /\ screen' = IF out.presented # <<>> THEN out.presented[1] ELSE screen
                /\ error_log' = error_log + out.logged
                /\ loop_state' = IF out.panicked THEN "panicked" ELSE loop_state
                /\ redraw_requested' = ~out.panicked
           ELSE /\ ops' = << Op("get_current_texture",
                                <<surface_config.width, surface_config.height>>),
                             Op("create_command_encoder", <<>>),
                             Op("begin_render_pass", <<>>),
                             Op("finish", <<>>),
                             Op("submit", <<>>),
                             Op("present", <<0>>) >>
                /\ screen' = -1
                /\ redraw_requested' = FALSE
                /\ UNCHANGED <<presented, error_log, loop_state>>
        /\ last_event' = "RedrawRequested"
        /\ last_recv' = IF r.ok THEN r.msg.tag ELSE r.err
        /\ observed' = IF isData THEN Append(observed, r.msg.id) ELSE observed
        /\ UNCHANGED <<close_requested, config, surface_config, window_size,
                       chan_closed, next_frame>>

\* Mutant of RedrawRequestedHandler: a disconnected channel ends the loop.
RedrawRequestedHandler_ExitOnDisconnected(acquire_ok) ==
    LET r == TryRecv(chan, chan_closed)
        isData == r.ok /\ r.msg.tag = "Data"
        out == render_texture(r.msg, surface_config, acquire_ok)
    IN  /\ chan' = IF r.ok THEN Tail(chan) ELSE chan
        /\ IF isData
           THEN /\ ops' = out.ops
                /\ presented' = presented \o out.presented
                /\ screen' = IF out.presented # <<>> THEN out.presented[1] ELSE screen
                /\ error_log' = error_log + out.logged
                /\ loop_state' = IF out.panicked THEN "panicked" ELSE loop_state
                /\ redraw_requested' = ~out.panicked
           ELSE /\ ops' = <<>>
                /\ redraw_requested' = FALSE
                /\ loop_state' = IF r.err = "Disconnected" THEN "exited" ELSE loop_state
                /\ UNCHANGED <<presented, screen, error_log>>
        /\ last_event' = "RedrawRequested"
        /\ last_recv' = IF r.ok THEN r.msg.tag ELSE r.err
        /\ observed' = IF isData THEN Append(observed, r.msg.id) ELSE observed
        /\ UNCHANGED <<close_requested, config, surface_config, window_size,
                       chan_closed, next_frame>>

\* Mutant of RedrawRequestedHandler: the frame is read but left in the channel.
RedrawRequestedHandler_Peek(acquire_ok) ==
    LET r == TryRecv(chan, chan_closed)
        isData == r.ok /\ r.msg.tag = "Data"
        out == render_texture(r.msg, surface_config, acquire_ok)
    IN  /\ chan' = chan
        /\ IF isData
           THEN /\ ops' = out.ops
                /\ presented' = presented \o out.presented
                /\ screen' = IF out.presented # <<>> THEN out.presented[1] ELSE screen
                /\ error_log' = IF error_log < MaxFrames THEN error_log + out.logged
                                ELSE error_log
                /\ loop_state' = IF out.panicked THEN "panicked" ELSE loop_state
                /\ redraw_requested' = ~out.panicked
           ELSE /\ ops' = <<>>
                /\ redraw_requested' = FALSE
                /\ UNCHANGED <<presented, screen, error_log, loop_state>>
        /\ last_event' = "RedrawRequested"
        /\ last_recv' = IF r.ok THEN r.msg.tag ELSE r.err
        /\ observed' = IF isData /\ Len(observed) <= MaxFrames
                       THEN Append(observed, r.msg.id) ELSE observed
        /\ UNCHANGED <<close_requested, config, surface_config, window_size,
                       chan_closed, next_frame>>

\* Mutant of RedrawRequestedHandler: a blocking recv(), which waits while the
\* channel is empty and the producer still holds its end.
RedrawRequestedHandler_BlockingRecv(acquire_ok) ==
    LET r == TryRecv(chan, chan_closed)
        isData == r.ok /\ r.msg.tag = "Data"
        out == render_texture(r.msg, surface_config, acquire_ok)
    IN  /\ r.err # "Empty"
        /\ chan' = IF r.ok THEN Tail(chan) ELSE chan
        /\ IF isData
           THEN /\ ops' = out.ops
                /\ presented' = presented \o out.presented
                /\ screen' = IF out.presented # <<>> THEN out.presented[1] ELSE screen
                /\ error_log' = error_log + out.logged
                /\ loop_state' = IF out.panicked THEN "panicked" ELSE loop_state
                /\ redraw_requested' = ~out.panicked
           ELSE /\ ops' = <<>>
                /\ redraw_requested' = FALSE
                /\ UNCHANGED <<presented, screen, error_log, loop_state>>
        /\ last_event' = "RedrawRequested"
        /\ last_recv' = IF r.ok THEN r.msg.tag ELSE r.err
        /\ observed' = IF isData THEN Append(observed, r.msg.id) ELSE observed
        /\ UNCHANGED <<close_requested, config, surface_config, window_size,
                       chan_closed, next_frame>>

\* The body of the RedrawRequested arm; acquire_ok is the answer
\* get_current_texture would give.
RedrawRequestedHandler(acquire_ok) ==
    LET r == TryRecv(chan, chan_closed)
        isData == r.ok /\ r.msg.tag = "Data"
        out == render_texture(r.msg, surface_config, acquire_ok)
    IN  /\ chan' = IF r.ok THEN Tail(chan) ELSE chan
        /\ IF isData
           THEN /\ ops' = out.ops
                /\ presented' = presented \o out.presented
                /\ screen' = IF out.presented # <<>> THEN out.presented[1] ELSE screen
                /\ error_log' = error_log + out.logged
                /\ loop_state' = IF out.panicked THEN "panicked" ELSE loop_state
                /\ redraw_requested' = ~out.panicked
           ELSE /\ ops' = <<>>
                /\ redraw_requested' = FALSE
                /\ UNCHANGED <<presented, screen, error_log, loop_state>>
        /\ last_event' = "RedrawRequested"
        /\ last_recv' = IF r.ok THEN r.msg.tag ELSE r.err
        /\ observed' = IF isData THEN Append(observed, r.msg.id) ELSE observed
        /\ UNCHANGED <<close_requested, config, surface_config, window_size,
                       chan_closed, next_frame>>

\* A RedrawRequested event owed to window.request_redraw() (or the first expose).
RedrawRequested ==
    /\ loop_state = "running"
    /\ redraw_requested
    /\ \E acquire_ok \in BOOLEAN : RedrawRequestedHandler(acquire_ok)

\* A RedrawRequested event the windowing system sends of its own accord.
SystemRedrawRequested ==
    /\ loop_state = "running"
    /\ ~redraw_requested
    /\ \E acquire_ok \in BOOLEAN : RedrawRequestedHandler(acquire_ok)

\* Event::AboutToWait
AboutToWait ==
    /\ loop_state = "running"
    /\ loop_state' = IF close_requested THEN "exited" ELSE loop_state
    /\ ops' = <<>>
    /\ last_event' = "AboutToWait"
    /\ UNCHANGED <<close_requested, config, surface_config, window_size, chan,
                   chan_closed, next_frame, redraw_requested, presented, screen,
                   error_log, last_recv, observed>>

\* _ => {}
OtherEvent ==
    /\ loop_state = "running"
    /\ ops' = <<>>
    /\ last_event' = "Other"
    /\ UNCHANGED <<close_requested, loop_state, config, surface_config, window_size,
                   chan, chan_closed, next_frame, redraw_requested, presented, screen,
                   error_log, last_recv, observed>>

\* ------------------------------------------------------------ specification
Init ==
    /\ close_requested = FALSE
    /\ loop_state = "running"
    /\ config = [usage |-> "RENDER_ATTACHMENT", format |-> "Bgra8UnormSrgb",
                 width |-> OUTPUT_RESOLUTION.width, height |-> OUTPUT_RESOLUTION.height,
                 present_mode |-> "Fifo", desired_maximum_frame_latency |-> 0,
                 alpha_mode |-> "Auto", view_formats |-> <<>>]
    /\ surface_config = config
    /\ window_size = OUTPUT_RESOLUTION
    /\ chan = <<>>
    /\ chan_closed = FALSE
    /\ next_frame = 1
    /\ redraw_requested = TRUE
    /\ ops = <<>>
    /\ presented = <<>>
    /\ screen = 0
    /\ error_log = 0
    /\ last_event = "none"
    /\ last_recv = "none"
    /\ observed = <<>>

Next ==
    \/ \E data \in FrameDataVariants : ProducerSend(data)
    \/ ProducerSendEOS
    \/ ProducerClose
    \/ CloseRequested
    \/ \E new_size \in NewSizes : Resized(new_size)
    \/ RedrawRequested
    \/ SystemRedrawRequested
    \/ AboutToWait
    \/ OtherEvent

Spec == Init /\ [][Next]_vars

\* ControlFlow::Poll: the loop keeps iterating, so AboutToWait recurs, and a
\* redraw asked for with window.request_redraw() is delivered.
FairSpec == Spec /\ WF_vars(AboutToWait) /\ WF_vars(RedrawRequested)

TypeOK ==
    /\ close_requested \in BOOLEAN
    /\ loop_state \in {"running", "exited", "panicked"}
    /\ chan_closed \in BOOLEAN
    /\ next_frame \in 1..(MaxFrames + 1)
    /\ redraw_requested \in BOOLEAN
    /\ error_log \in 0..MaxFrames
    /\ screen \in -1..MaxFrames

\* ------------------------------------------------------------------ claims
Frames == 1..MaxFrames
GoodFrame(f) == DataMsg(f, "Rgba8UnormWgpuTexture")
WasPresented(f) == \E i \in 1..Len(presented) : presented[i] = f
\* The producer has acted again after emitting frame f.
ProducerMovedOn(f) == next_frame > f + 1 \/ chan_closed \/ chan = <<EOSMsg>>

\* C1: once a CloseRequested event has been processed, no handler makes a
\* render_texture GPU call (acquire, render pass, submit, present) any more,
\* whatever events follow.
NoDrawAfterCloseRequested ==
    [][close_requested => (ops' = <<>> /\ presented' = presented)]_vars

\* C2: after a CloseRequested event the loop eventually reaches the terminal
\* state Exited (through the AboutToWait that follows).
CloseRequestedLeadsToExited == close_requested ~> (loop_state = "exited")

\* C2 (safety part, holds): the flag is never cleared and the control state
\* only moves Running -> ClosePending -> Exited.
CloseFlagMonotone ==
    [][/\ close_requested => close_requested'
       /\ loop_state = "exited" => loop_state' = "exited"
       /\ loop_state' = "exited" => close_requested]_vars

\* C3: when a redraw opportunity found the channel empty and the producer then
\* emits a frame while the loop is Running with no close request, that frame is
\* eventually presented (unless the producer supersedes it, a close arrives or
\* the surface acquisition fails).
IdleThenFramePresented ==
    \A f \in Frames :
        [](( /\ last_event = "RedrawRequested" /\ last_recv = "Empty"
             /\ chan = <<GoodFrame(f)>> /\ ~chan_closed
             /\ loop_state = "running" /\ ~close_requested )
           => <>(\/ WasPresented(f) \/ close_requested \/ ProducerMovedOn(f)
                 \/ loop_state = "panicked"))

\* C4: a failed surface acquisition skips the iteration: no render pass, no
\* submit, no present, and the loop is still running.
AcquireFailureSkipsIteration ==
    CountOp(ops, "get_current_texture_err") > 0 =>
        /\ loop_state = "running"
        /\ CountOp(ops, "begin_render_pass") = 0
        /\ CountOp(ops, "submit") = 0
        /\ CountOp(ops, "present") = 0

\* C5: after a malformed frame was logged and skipped, a well-formed frame the
\* producer delivers later is still presented (unless the producer supersedes
\* it, a close arrives or the surface acquisition fails).
MalformedThenLaterFramePresented ==
    \A f \in Frames :
        [](( /\ error_log > 0 /\ chan = <<GoodFrame(f)>> /\ ~chan_closed
             /\ loop_state = "running" /\ ~close_requested )
           => <>(\/ WasPresented(f) \/ close_requested \/ ProducerMovedOn(f)
                 \/ loop_state = "panicked"))

\* C5 (safety part, holds): the handler that takes a malformed frame logs one
\* error, makes no GPU call, presents nothing and leaves the loop running.
MalformedFrameSkipped ==
    [][error_log' > error_log =>
         /\ error_log' = error_log + 1
         /\ ops' = <<>> /\ presented' = presented /\ screen' = screen
         /\ loop_state' = loop_state /\ redraw_requested']_vars

\* C6: at most one message is pending between producer and loop, and a frame
\* that gets presented is the most recently emitted one, so a superseded frame
\* is never presented later.
LatestFramePresented ==
    /\ [](Len(chan) <= 1)
    /\ [][Len(presented') > Len(presented) =>
            /\ Len(presented') = Len(presented) + 1
            /\ Last(presented') = next_frame - 1]_vars
LatestFramePresentedWitness ==
    /\ next_frame = 3 /\ presented = <<2>> /\ CountOp(ops, "present") = 1

\* C7: whenever a draw happens, the acquired surface image has the width and
\* height of the latest Resized event (the initial window size if none), and
\* config and the configured surface agree with it.
DrawUsesLatestSize ==
    /\ config.width = window_size.width /\ config.height = window_size.height
    /\ \A i \in 1..Len(ops) :
          ops[i].op = "get_current_texture" =>
              ops[i].arg = <<window_size.width, window_size.height>>
DrawUsesLatestSizeWitness ==
    /\ window_size # OUTPUT_RESOLUTION
    /\ CountOp(ops, "get_current_texture") = 1
    /\ CountOp(ops, "present") = 1

\* C8: a redraw opportunity at which try_recv yields no data frame makes no
\* GPU call and leaves the presented image as it was.
NoFrameNoDraw ==
    [][( /\ RedrawRequested \/ SystemRedrawRequested
         /\ LET r == TryRecv(chan, chan_closed)
            IN  ~(r.ok /\ r.msg.tag = "Data") )
       => (ops' = <<>> /\ presented' = presented /\ screen' = screen)]_vars
NoFrameNoDrawWitness ==
    /\ screen = 1 /\ presented = <<1>>
    /\ last_event = "RedrawRequested" /\ last_recv = "Empty" /\ ops = <<>>

\* C9: a handler in which a frame is drawn makes exactly one bind group, one
\* render pass, one draw call of 3 vertices / 1 instance, one submit and one
\* present.
ExactlyOneOfEachPerDrawnFrame ==
    ( \/ CountOp(ops, "begin_render_pass") > 0 \/ CountOp(ops, "draw") > 0
      \/ CountOp(ops, "submit") > 0 \/ CountOp(ops, "present") > 0 )
    => /\ CountOp(ops, "create_bind_group") = 1
       /\ CountOp(ops, "begin_render_pass") = 1
       /\ CountOp(ops, "draw") = 1
       /\ CountOp(ops, "submit") = 1
       /\ CountOp(ops, "present") = 1
       /\ \A i \in 1..Len(ops) : ops[i].op = "draw" => ops[i].arg = <<3, 1>>
ExactlyOneOfEachPerDrawnFrameWitness ==
    /\ CountOp(ops, "draw") = 1 /\ presented = <<1>> /\ screen = 1

\* C10: once the producer has closed the channel, no step exits the loop other
\* than the AboutToWait that follows a close request, every take yields no
\* frame (nothing is drawn), and Resized and CloseRequested still take effect.
ClosedChannelKeepsLoopLive ==
    [][chan_closed =>
         /\ loop_state = "running" =>
                (loop_state' = "running" \/ (close_requested /\ loop_state' = "exited"))
         /\ ops' = <<>> /\ presented' = presented
         /\ last_recv' \in {last_recv, "Disconnected"}
         /\ (\E new_size \in NewSizes : Resized(new_size)) =>
                (surface_config'.width = window_size'.width
                   /\ surface_config'.height = window_size'.height)
         /\ CloseRequested => close_requested']_vars
ClosedChannelKeepsLoopLiveWitness ==
    /\ chan_closed /\ last_recv = "Disconnected" /\ chan # <<>>
    /\ window_size # OUTPUT_RESOLUTION /\ loop_state = "exited"

\* C11: the loop leaves the running state only after a CloseRequested event
\* was processed: no error or condition met inside the loop ends it.
TerminatesOnlyAfterCloseRequested ==
    loop_state # "running" => close_requested

\* Position of the first call named name in s (0 when there is none).
PosOf(s, name) ==
    IF \E i \in 1..Len(s) : s[i].op = name
    THEN CHOOSE i \in 1..Len(s) :
            s[i].op = name /\ \A j \in 1..(i - 1) : s[j].op # name
    ELSE 0
\* Surface images acquired and not yet presented after the calls of s.
Outstanding(s) == CountOp(s, "get_current_texture") - CountOp(s, "present")

\* C12: in a handler that draws, the surface image is acquired, then the
\* render pass and draw are recorded and submitted, then the image is
\* presented, in that order; at every point at most one acquired image is not
\* yet presented, and none is left when the handler ends.
AcquireDrawPresentInOrder ==
    /\ \A n \in 0..Len(ops) : Outstanding(SubSeq(ops, 1, n)) \in {0, 1}
    /\ Outstanding(ops) = 0
    /\ ( \/ PosOf(ops, "get_current_texture") > 0 \/ PosOf(ops, "begin_render_pass") > 0
         \/ PosOf(ops, "draw") > 0 \/ PosOf(ops, "submit") > 0
         \/ PosOf(ops, "present") > 0 )
       => /\ 0 < PosOf(ops, "get_current_texture")
          /\ PosOf(ops, "get_current_texture") < PosOf(ops, "begin_render_pass")
          /\ PosOf(ops, "begin_render_pass") < PosOf(ops, "draw")
          /\ PosOf(ops, "draw") < PosOf(ops, "submit")
          /\ PosOf(ops, "submit") < PosOf(ops, "present")
AcquireDrawPresentInOrderWitness ==
    /\ presented = <<1, 2>> /\ PosOf(ops, "present") > 0

NoDuplicates(s) == \A i, j \in 1..Len(s) : i # j => s[i] # s[j]

\* C13: the loop is handed every frame at most once; a frame is drawn only in
\* the handler that took it from the channel, it is gone from the channel
\* after that handler, and it is never drawn or presented again later.
FrameObservedAtMostOnce ==
    /\ NoDuplicates(observed)
    /\ NoDuplicates(presented)
    /\ \A i \in 1..Len(presented) : \E j \in 1..Len(observed) : observed[j] = presented[i]
    /\ \A i \in 1..Len(ops) :
          ops[i].op \in {"create_bind_group", "present"} =>
              (observed # <<>> /\ ops[i].arg = <<Last(observed)>>)
    /\ \A i \in 1..Len(chan) : \A j \in 1..Len(observed) :
          chan[i].tag = "Data" => chan[i].id # observed[j]
FrameObservedAtMostOnceWitness ==
    /\ observed = <<1, 2>> /\ presented = <<1>> /\ error_log = 1
    /\ last_event = "RedrawRequested" /\ last_recv = "Empty"

\* C14: while the loop runs, the RedrawRequested arm can always be run to
\* completion in one step, whatever the channel holds (nothing, a frame, an
\* end-of-stream marker) or whether the producer has closed it, and the other
\* window events can be handled as well: the loop never waits for the producer.
RedrawNeverBlocksOnProducer ==
    loop_state = "running" =>
        /\ ENABLED (RedrawRequested \/ SystemRedrawRequested)
        /\ ENABLED CloseRequested
        /\ ENABLED AboutToWait
RedrawNeverBlocksOnProducerWitness ==
    /\ loop_state = "running" /\ chan = <<>> /\ ~chan_closed
    /\ last_recv = "Empty" /\ last_event = "CloseRequested"

\* C15: frames are presented in production order: of two presented frames the
\* one presented first was produced first (frame ids count production order).
PresentedInProductionOrder ==
    \A i, j \in 1..Len(presented) : i < j => presented[i] < presented[j]
PresentedInProductionOrderWitness ==
    /\ presented = <<1, 2>> /\ observed = <<1, 2>> /\ screen = 2

\* C16: usage, pixel format and presentation mode of the surface configuration
\* keep their startup values; a step that changes config is a Resized step and
\* changes only width and height; the CloseRequested, RedrawRequested and
\* AboutToWait handlers leave config and the configured surface as they were.
ConfigChangedOnlyByResized ==
    /\ [](/\ config.usage = "RENDER_ATTACHMENT"
          /\ config.format = "Bgra8UnormSrgb"
          /\ config.present_mode = "Fifo"
          /\ surface_config = config)
    /\ [][config' # config =>
            /\ \E new_size \in NewSizes : Resized(new_size)
            /\ config' = [config EXCEPT !.width = config'.width,
                                        !.height = config'.height]]_vars
    /\ [][(CloseRequested \/ RedrawRequested \/ SystemRedrawRequested \/ AboutToWait)
            => (config' = config /\ surface_config' = surface_config)]_vars
ConfigChangedOnlyByResizedWitness ==
    /\ last_event = "Resized" /\ config.width = 640 /\ config.height = 480
    /\ config.present_mode = "Fifo" /\ presented # <<>>

\* Per-frame GPU resources still live after the calls of s: bind groups
\* created and not dropped, surface images acquired and not presented,
\* command encoders created and not finished.
LivePerFrameResources(s) ==
    (CountOp(s, "create_bind_group") - CountOp(s, "drop_bind_group"))
    + (CountOp(s, "get_current_texture") - CountOp(s, "present"))
    + (CountOp(s, "create_command_encoder") - CountOp(s, "finish"))

\* C17: when a handler has ended, none of the per-frame resources it created
\* (bind group, acquired surface image, command encoder) is live, on every
\* path through render_texture; so nothing accumulates from frame to frame.
NoPerFrameResourceOutlivesHandler ==
    /\ LivePerFrameResources(ops) = 0
    /\ CountOp(ops, "create_bind_group") = CountOp(ops, "drop_bind_group")
    /\ CountOp(ops, "get_current_texture") = CountOp(ops, "present")
    /\ CountOp(ops, "create_command_encoder") = CountOp(ops, "finish")
    /\ (last_event = "RedrawRequested" /\ last_recv = "Data" /\ ops = <<>>)
           => error_log > 0
NoPerFrameResourceOutlivesHandlerWitness ==
    /\ presented = <<1, 2>> /\ CountOp(ops, "drop_bind_group") = 1
    /\ CountOp(ops, "finish") = 1 /\ CountOp(ops, "present") = 1

\* try_recv() would hand the RedrawRequested arm a data event in this state.
ChannelYieldsData ==
    LET r == TryRecv(chan, chan_closed) IN r.ok /\ r.msg.tag = "Data"

\* C18: the RedrawRequested arm leaves a redraw requested exactly when
\* try_recv returned a data event (a malformed frame included); on an empty or
\* closed channel or an end-of-stream marker it draws nothing and requests no
\* redraw.
RedrawRequestedIffDataEvent ==
    [][(RedrawRequested \/ SystemRedrawRequested) =>
         /\ redraw_requested' <=> ChannelYieldsData
         /\ ~ChannelYieldsData => (ops' = <<>> /\ presented' = presented)]_vars

\* C18 (holds): the same, for the handlers that return.
RedrawRequestedIffDataEventUnlessPanic ==
    [][((RedrawRequested \/ SystemRedrawRequested) /\ loop_state' = "running") =>
         /\ redraw_requested' <=> ChannelYieldsData
         /\ ~ChannelYieldsData => (ops' = <<>> /\ presented' = presented)]_vars
====
